---- MODULE Spec2Model ----
(***************************************************************************)
(* Model of the askllm gateway (src/main.go): one GET / handler that       *)
(* forwards the q parameter to the upstream chat-completion API and        *)
(* relays the first choice's text.  Every inbound request is served by its *)
(* own goroutine; the handler blocks twice: in client.Do until the         *)
(* response headers are in, and in io.ReadAll until the body has ended.    *)
(***************************************************************************)
EXTENDS Integers, Sequences, FiniteSets, TLC

\* ------------------------------------------------------------------ bounds
NumRequests == 2

Requests == 1..NumRequests

\* ------------------------------------------------------ program constants
StatusOK == 200
StatusBadRequest == 400
StatusInternalServerError == 500
MaxTokens == 1024
ClientTimeout == 60

ModelName == "deepseek-ai/DeepSeek-R1"
ApiUrl == "https://llm.chutes.ai/v1/chat/completions"

MsgMissingQuery == "Please provide a query with the 'q' parameter. Example: /?q=Hello"
MsgInternal == "Internal server error."
MsgUnreachable == "Failed to contact DeepSeek LLM. Please try again later."
MsgUpstreamError == "Error from DeepSeek LLM. Please try again later."
MsgInvalidFormat == "Internal server error: invalid response format from DeepSeek LLM."
MsgFallback == "DeepSeek LLM could not generate a response to your query."

\* ------------------------------------------------------------ input sets
\* The CHUTES_API_TOKEN value the process starts with (non-empty).
Tokens == {"tokA"}

\* The raw q parameter of an inbound request: absent, empty or a text.
\* A text is the sequence of its characters; a byte that is not part of any
\* valid UTF-8 sequence (%ff in the URL) is the unit InvalidByte.
InvalidByte == "xFF"
ReplacementChar == "uFFFD"

QueryParams ==
  { [present |-> FALSE, value |-> <<>>],
    [present |-> TRUE, value |-> <<>>],
    [present |-> TRUE, value |-> <<"H", "i">>],
    [present |-> TRUE, value |-> <<"xFF", "i">>] }

\* Status codes the upstream may answer with.
UpstreamStatuses == {200, 201, 404, 500}

\* Message contents of the upstream's choices.
ChoiceLists ==
  { <<>>, <<"B", "A">>, <<"", "A">> }

\* An upstream response body: bytes that are not a JSON document of the
\* expected shape, or a JSON object with a choices array.
Garbage == [wellformed |-> FALSE, choices |-> <<>>]

Bodies ==
  {Garbage} \cup { [wellformed |-> TRUE, choices |-> cl] : cl \in ChoiceLists }

\* How the upstream behaves for one outbound call: whether the connection
\* is made, and the seconds after which the response headers and the end of
\* the body arrive (Never: they do not).
Never == -1
Refused == [connect |-> FALSE, headersAt |-> Never, bodyAt |-> Never]
Silent == [connect |-> TRUE, headersAt |-> Never, bodyAt |-> Never]
OnTime == [connect |-> TRUE, headersAt |-> 0, bodyAt |-> 1]
SlowBody == [connect |-> TRUE, headersAt |-> 1, bodyAt |-> ClientTimeout + 1]
LateHeaders == [connect |-> TRUE, headersAt |-> ClientTimeout + 1, bodyAt |-> ClientTimeout + 2]
UpstreamBehaviours == {Refused, Silent, OnTime, SlowBody, LateHeaders}

\* Whether an event at t seconds comes before the client's timer fires.
InTime(t) == t # Never /\ t <= ClientTimeout
TooLate(t) == t = Never \/ t >= ClientTimeout

\* ------------------------------------------------------------------ state
VARIABLES
  apiKey,     \* the token read at startup, captured by the handler closure
  pc,         \* per request: "idle", "awaiting" (blocked in client.Do),
              \* "reading" (blocked in io.ReadAll), "done"
  query,      \* per request: the raw q parameter
  outbound,   \* per request: the outbound call issued, or NoCall
  calls,      \* per request: number of outbound calls issued
  upstream,   \* per request: behaviour of the upstream for the call in flight
  outcome,    \* per request: what the completion path observed
  response,   \* per request: the response written to the caller, or NoResponse
  written     \* per request: number of responses written

vars == <<apiKey, pc, query, outbound, calls, upstream, outcome, response, written>>

NoQuery == [present |-> FALSE, value |-> <<>>]
NoCall == [method |-> "", url |-> "", contentType |-> "", authorization |-> "",
           payload |-> [Model |-> "", Messages |-> <<>>, Stream |-> FALSE,
                        MaxTokens |-> 0, Temperature |-> ""]]
NoOutcome == [kind |-> "none", status |-> 0, body |-> Garbage]
NoResponse == [status |-> 0, body |-> ""]
NoUpstream == [connect |-> FALSE, headersAt |-> 0, bodyAt |-> 0]

\* ------------------------------------------------------- pure operations
\* Faulty variant: an absent parameter falls back to a default prompt.
QueryDefaulted(p) == IF p.present THEN p.value ELSE <<"H", "i">>

\* c.Query("q"): the value of the parameter, "" when it is absent.
Query(p) == IF p.present THEN p.value ELSE <<>>

\* Faulty variant: a system prompt is sent ahead of the user's message.
PayloadWithSystemPrompt(q) ==
  [ Model |-> "deepseek-ai/DeepSeek-R1",
    Messages |-> << [Role |-> "system", Content |-> <<"B", "e">>],
                    [Role |-> "user", Content |-> q] >>,
    Stream |-> FALSE,
    MaxTokens |-> 1024,
    Temperature |-> "0.7" ]

\* The DeepSeekRequestPayload built for a query.
Payload(q) ==
  [ Model |-> ModelName,
    Messages |-> << [Role |-> "user", Content |-> q] >>,
    Stream |-> FALSE,
    MaxTokens |-> MaxTokens,
    Temperature |-> "0.7" ]

\* The string coercion of json.Marshal: every byte that is not valid UTF-8
\* becomes U+FFFD.
ToValidUTF8(str) ==
  [i \in 1..Len(str) |-> IF str[i] = InvalidByte THEN ReplacementChar ELSE str[i]]

\* Faulty variant: the strings are sent byte for byte, without the coercion.
MarshalRaw(payload) == payload

\* json.Marshal(payload): the JSON document sent, given by the values it
\* decodes to.
Marshal(payload) ==
  [ Model |-> payload.Model,
    Messages |-> [i \in 1..Len(payload.Messages) |->
                    [Role |-> payload.Messages[i].Role,
                     Content |-> ToValidUTF8(payload.Messages[i].Content)]],
    Stream |-> payload.Stream,
    MaxTokens |-> payload.MaxTokens,
    Temperature |-> payload.Temperature ]

\* The POST request built from the serialised payload and the token.
NewRequest(jsonPayload, key) ==
  [ method |-> "POST",
    url |-> ApiUrl,
    contentType |-> "application/json",
    authorization |-> "Bearer " \o key,
    payload |-> jsonPayload ]

\* json.Unmarshal(body, &deepseekResponse)
Unmarshal(body) ==
  [ err |-> ~body.wellformed,
    Choices |-> IF body.wellformed
                  THEN [i \in 1..Len(body.choices) |->
                          [Index |-> i - 1,
                           Message |-> [Role |-> "assistant", Content |-> body.choices[i]]]]
                  ELSE <<>> ]

\* Faulty variant: an empty answer is reported as an error.
ExtractStrict(resp) ==
  IF Len(resp.Choices) > 0 /\ resp.Choices[1].Message.Content # ""
    THEN [status |-> 200, body |-> resp.Choices[1].Message.Content]
    ELSE [status |-> 500, body |-> "Internal server error."]

\* The answer-extraction step on a decoded response.
Extract(resp) ==
  IF Len(resp.Choices) > 0 /\ resp.Choices[1].Message.Content # ""
    THEN [status |-> StatusOK, body |-> resp.Choices[1].Message.Content]
    ELSE [status |-> StatusOK, body |-> MsgFallback]

\* Whether a status passes the handler's status check.
StatusAccepted(status) == status = StatusOK

\* Faulty variant: the upstream's error body is relayed to the caller.
HandleResponseLeaky(status, body) ==
  IF status # 200
    THEN [status |-> 500,
          body |-> IF body.wellformed /\ Len(body.choices) > 0
                     THEN body.choices[1]
                     ELSE "Error from DeepSeek LLM. Please try again later."]
    ELSE LET d == Unmarshal(body) IN
         IF d.err
           THEN [status |-> 500,
                 body |-> "Internal server error: invalid response format from DeepSeek LLM."]
           ELSE Extract(d)

\* What the handler writes once a response with a fully read body is in hand.
HandleResponse(status, body) ==
  IF ~StatusAccepted(status)
    THEN [status |-> StatusInternalServerError, body |-> MsgUpstreamError]
    ELSE LET d == Unmarshal(body) IN
         IF d.err
           THEN [status |-> StatusInternalServerError, body |-> MsgInvalidFormat]
           ELSE Extract(d)

\* ---------------------------------------------------------------- actions
\* Faulty variant: the answer is kept in a buffer shared by all handlers, so writing
\* one response overwrites those of the other finished requests.
RespondShared(r, resp, oc) ==
  /\ response' = [x \in Requests |->
                    IF x = r \/ pc[x] = "done" THEN resp ELSE response[x]]
  /\ written' = [written EXCEPT ![r] = @ + 1]
  /\ outcome' = [outcome EXCEPT ![r] = oc]
  /\ pc' = [pc EXCEPT ![r] = "done"]

\* c.String(code, text) followed by return.
Respond(r, resp, oc) ==
  /\ response' = [response EXCEPT ![r] = resp]
  /\ written' = [written EXCEPT ![r] = @ + 1]
  /\ outcome' = [outcome EXCEPT ![r] = oc]
  /\ pc' = [pc EXCEPT ![r] = "done"]

\* The handler from its entry to the point where it blocks in client.Do.
\* json.Marshal of this payload (strings, a bool, an int, the float 0.7) and
\* http.NewRequest of the constant method and URL cannot return an error, so
\* their error branches are never taken.
HandleRequest(r, p, beh) ==
  /\ pc[r] = "idle"
  /\ query' = [query EXCEPT ![r] = p]
  /\ IF Query(p) = <<>>
       THEN /\ Respond(r, [status |-> StatusBadRequest, body |-> MsgMissingQuery],
                       [kind |-> "noquery", status |-> 0, body |-> Garbage])
            /\ UNCHANGED <<outbound, calls, upstream>>
       ELSE /\ outbound' = [outbound EXCEPT ![r] =
                            NewRequest(Marshal(Payload(Query(p))), apiKey)]
            /\ calls' = [calls EXCEPT ![r] = @ + 1]
            /\ upstream' = [upstream EXCEPT ![r] = beh]
            /\ pc' = [pc EXCEPT ![r] = "awaiting"]
            /\ UNCHANGED <<outcome, response, written>>
  /\ UNCHANGED apiKey

\* Faulty variant: a failed call is retried once before giving up.
TransportFailureRetry(r) ==
  /\ pc[r] = "awaiting"
  /\ ~upstream[r].connect
  /\ IF calls[r] < 2
       THEN /\ calls' = [calls EXCEPT ![r] = @ + 1]
            /\ UNCHANGED <<apiKey, pc, query, outbound, upstream, outcome, response, written>>
       ELSE /\ Respond(r, [status |-> 500,
                           body |-> "Failed to contact DeepSeek LLM. Please try again later."],
                       [kind |-> "transport", status |-> 0, body |-> Garbage])
            /\ upstream' = [upstream EXCEPT ![r] = NoUpstream]
            /\ UNCHANGED <<apiKey, query, outbound, calls>>

\* client.Do fails before any response: DNS, connection refused, TLS.
TransportFailure(r) ==
  /\ pc[r] = "awaiting"
  /\ ~upstream[r].connect
  /\ Respond(r, [status |-> StatusInternalServerError, body |-> MsgUnreachable],
             [kind |-> "transport", status |-> 0, body |-> Garbage])
  /\ upstream' = [upstream EXCEPT ![r] = NoUpstream]
  /\ UNCHANGED <<apiKey, query, outbound, calls>>

\* Faulty variant: the client has no timeout; only a late response ends the wait.
TimeoutFiresNoTimer(r) ==
  /\ pc[r] = "awaiting"
  /\ upstream[r].connect /\ upstream[r].headersAt >= 60
  /\ Respond(r, [status |-> 500,
                 body |-> "Failed to contact DeepSeek LLM. Please try again later."],
             [kind |-> "timeout", status |-> 0, body |-> Garbage])
  /\ upstream' = [upstream EXCEPT ![r] = NoUpstream]
  /\ UNCHANGED <<apiKey, query, outbound, calls>>

\* The client's 60 s timer fires before the response headers arrive.
TimeoutFires(r) ==
  /\ pc[r] = "awaiting"
  /\ upstream[r].connect /\ TooLate(upstream[r].headersAt)
  /\ Respond(r, [status |-> StatusInternalServerError, body |-> MsgUnreachable],
             [kind |-> "timeout", status |-> 0, body |-> Garbage])
  /\ upstream' = [upstream EXCEPT ![r] = NoUpstream]
  /\ UNCHANGED <<apiKey, query, outbound, calls>>

\* client.Do returns the response once its headers are in; the handler goes
\* on to io.ReadAll(resp.Body) and blocks there.
ReceiveHeaders(r, status) ==
  /\ pc[r] = "awaiting"
  /\ upstream[r].connect /\ InTime(upstream[r].headersAt)
  /\ outcome' = [outcome EXCEPT ![r] = [kind |-> "headers", status |-> status, body |-> Garbage]]
  /\ pc' = [pc EXCEPT ![r] = "reading"]
  /\ UNCHANGED <<apiKey, query, outbound, calls, upstream, response, written>>

\* io.ReadAll returns the whole body; the handler checks the status, decodes
\* and answers.
ReadBody(r, body) ==
  /\ pc[r] = "reading"
  /\ InTime(upstream[r].bodyAt)
  /\ Respond(r, HandleResponse(outcome[r].status, body),
             [kind |-> "response", status |-> outcome[r].status, body |-> body])
  /\ upstream' = [upstream EXCEPT ![r] = NoUpstream]
  /\ UNCHANGED <<apiKey, query, outbound, calls>>

\* io.ReadAll fails because the connection breaks before the body has ended.
ReadFails(r) ==
  /\ pc[r] = "reading"
  /\ Respond(r, [status |-> StatusInternalServerError, body |-> MsgInternal],
             [kind |-> "read", status |-> outcome[r].status, body |-> Garbage])
  /\ upstream' = [upstream EXCEPT ![r] = NoUpstream]
  /\ UNCHANGED <<apiKey, query, outbound, calls>>

\* The client's timer, still armed after client.Do has returned, fires while
\* io.ReadAll waits for the rest of the body.
ReadTimeout(r) ==
  /\ pc[r] = "reading"
  /\ TooLate(upstream[r].bodyAt)
  /\ Respond(r, [status |-> StatusInternalServerError, body |-> MsgInternal],
             [kind |-> "readtimeout", status |-> outcome[r].status, body |-> Garbage])
  /\ upstream' = [upstream EXCEPT ![r] = NoUpstream]
  /\ UNCHANGED <<apiKey, query, outbound, calls>>

\* The handler has returned; its goroutine and locals are gone and the
\* server is ready for the next request.
Finish(r) ==
  /\ pc[r] = "done"
  /\ pc' = [pc EXCEPT ![r] = "idle"]
  /\ query' = [query EXCEPT ![r] = NoQuery]
  /\ outbound' = [outbound EXCEPT ![r] = NoCall]
  /\ calls' = [calls EXCEPT ![r] = 0]
  /\ outcome' = [outcome EXCEPT ![r] = NoOutcome]
  /\ response' = [response EXCEPT ![r] = NoResponse]
  /\ written' = [written EXCEPT ![r] = 0]
  /\ UNCHANGED <<apiKey, upstream>>

Init ==
  /\ apiKey \in Tokens
  /\ pc = [r \in Requests |-> "idle"]
  /\ query = [r \in Requests |-> NoQuery]
  /\ outbound = [r \in Requests |-> NoCall]
  /\ calls = [r \in Requests |-> 0]
  /\ upstream = [r \in Requests |-> NoUpstream]
  /\ outcome = [r \in Requests |-> NoOutcome]
  /\ response = [r \in Requests |-> NoResponse]
  /\ written = [r \in Requests |-> 0]

StartStep ==
  \E r \in Requests, p \in QueryParams, beh \in UpstreamBehaviours :
    HandleRequest(r, p, beh)

TransportStep == \E r \in Requests : TransportFailure(r)

TimeoutStep == \E r \in Requests : TimeoutFires(r)

HeadersStep == \E r \in Requests, status \in UpstreamStatuses : ReceiveHeaders(r, status)

BodyStep == \E r \in Requests, body \in Bodies : ReadBody(r, body)

ReadFailStep == \E r \in Requests : ReadFails(r)

ReadTimeoutStep == \E r \in Requests : ReadTimeout(r)

FinishStep == \E r \in Requests : Finish(r)

Next ==
  \/ StartStep \/ TransportStep \/ TimeoutStep \/ HeadersStep
  \/ BodyStep \/ ReadFailStep \/ ReadTimeoutStep \/ FinishStep

Spec == Init /\ [][Next]_vars

\* The Go runtime runs every unblocked goroutine and fires every armed timer.
Fairness ==
  \A r \in Requests :
    /\ WF_vars(TransportFailure(r))
    /\ WF_vars(TimeoutFires(r))
    /\ WF_vars(\E status \in UpstreamStatuses : ReceiveHeaders(r, status))
    /\ WF_vars(\E body \in Bodies : ReadBody(r, body))
    /\ WF_vars(ReadTimeout(r))

\* The same handler under fair scheduling, for the claims about termination.
\* What the upstream puts in a response does not matter to them, so the
\* requests carry one query text.
FairQueryParams ==
  { [present |-> FALSE, value |-> <<>>],
    [present |-> TRUE, value |-> <<"H", "i">>] }

FairStartStep ==
  \E r \in Requests, p \in FairQueryParams, beh \in UpstreamBehaviours :
    HandleRequest(r, p, beh)

FairNext ==
  \/ FairStartStep \/ TransportStep \/ TimeoutStep \/ HeadersStep
  \/ BodyStep \/ ReadFailStep \/ ReadTimeoutStep \/ FinishStep

FairSpec == Init /\ [][FairNext]_vars /\ Fairness

\* ================================================================ claims
Done(r) == pc[r] = "done"

NonEmptyQuery(r) == query[r].present /\ query[r].value # <<>>

Is2xx(status) == status >= 200 /\ status < 300

\* The upstream answered and its body was read in full.
Answered(r) == Done(r) /\ outcome[r].kind = "response"

\* A well-formed body with at least one choice.
HasChoice(r) == outcome[r].body.wellformed /\ Len(outcome[r].body.choices) > 0

\* C1, read with the rule that an empty first content gets the fallback text:
\* for a non-empty q, a well-formed 2xx upstream response whose first choice
\* has a non-empty message content yields HTTP 200 whose body is that content.
C1_AsStated ==
  \A r \in Requests :
    (Answered(r) /\ NonEmptyQuery(r) /\ Is2xx(outcome[r].status) /\ HasChoice(r)
       /\ outcome[r].body.choices[1] # "")
      => response[r] = [status |-> 200, body |-> outcome[r].body.choices[1]]

\* C2: a request whose q is absent or empty is answered with HTTP 400 and
\* no outbound call is issued for it.
C2_MissingQueryNoCall ==
  \A r \in Requests :
    (pc[r] # "idle" /\ (~query[r].present \/ query[r].value = <<>>))
      => /\ Done(r)
         /\ response[r].status = 400
         /\ calls[r] = 0
         /\ outbound[r] = NoCall

C2_Witness ==
  \E r1, r2 \in Requests :
    /\ Done(r1) /\ ~query[r1].present /\ response[r1].status = 400
    /\ Done(r2) /\ query[r2].present /\ query[r2].value = <<>> /\ response[r2].status = 400

\* The handler went past the status check: it decoded the body and either
\* reported a decode failure or ran the answer extraction.
WentOnToDecode(r) ==
  IF outcome[r].body.wellformed
    THEN response[r].status = 200
    ELSE response[r] = [status |-> 500,
                        body |-> "Internal server error: invalid response format from DeepSeek LLM."]

TreatedAsUpstreamError(r) ==
  response[r] = [status |-> 500, body |-> "Error from DeepSeek LLM. Please try again later."]

\* C3: on every 2xx status the body is decoded and the answer is extracted;
\* exactly the non-2xx statuses are upstream-error failures.
C3_AsStated ==
  \A r \in Requests :
    Answered(r) =>
      IF Is2xx(outcome[r].status) THEN WentOnToDecode(r) ELSE TreatedAsUpstreamError(r)

\* The decoded response has no usable answer.
NoUsableChoice(r) ==
  /\ outcome[r].body.wellformed
  /\ \/ Len(outcome[r].body.choices) = 0
     \/ outcome[r].body.choices[1] = ""

FallbackResponse ==
  [status |-> 200, body |-> "DeepSeek LLM could not generate a response to your query."]

\* The handler has a parsed response: it decodes the body only when the
\* status is 200, and the decoding gave no error.
Parsed(r) ==
  /\ Answered(r)
  /\ outcome[r].status = 200
  /\ outcome[r].body.wellformed

\* C4: when the upstream call succeeded and the parsed response has no
\* choices, or an empty first message content, the handler answers with
\* HTTP 200 and the fallback text, never with an error status.
C4_FallbackOnEmptyAnswer ==
  \A r \in Requests :
    (Parsed(r) /\ NoUsableChoice(r)) => response[r] = FallbackResponse

C4_Witness ==
  \E r1, r2 \in Requests :
    /\ Parsed(r1) /\ outcome[r1].body.choices = <<>> /\ response[r1] = FallbackResponse
    /\ Parsed(r2) /\ outcome[r2].body.choices = <<"", "A">>
    /\ response[r2] = FallbackResponse

IsErrorStatus(status) == status >= 400 /\ status < 600

\* The upstream's response headers came in, with the status in outcome.
GotStatus(r) == Done(r) /\ outcome[r].kind \in {"response", "read", "readtimeout"}

\* Whether the body of the response was read to its end.
BodyRead(r) == outcome[r].kind = "response"

\* C5 as stated: every upstream 4xx/5xx status is answered with HTTP 500 and
\* one and the same body, whatever the upstream status and body.
C5_AsStated ==
  \A r1, r2 \in Requests :
    (/\ GotStatus(r1) /\ IsErrorStatus(outcome[r1].status)
     /\ GotStatus(r2) /\ IsErrorStatus(outcome[r2].status))
      => /\ response[r1].status = 500
         /\ response[r1] = response[r2]

\* C5 amended: an upstream 4xx/5xx status is answered with HTTP 500 and a
\* fixed body that depends neither on the upstream status nor on the upstream
\* body: the upstream-error text when the body was read to its end, "Internal
\* server error." when reading it failed or timed out.  Two requests that
\* differ only in the upstream error status or body get the same response.
C5_ErrorBodyNotRelayed ==
  \A r1, r2 \in Requests :
    (/\ GotStatus(r1) /\ IsErrorStatus(outcome[r1].status)
     /\ GotStatus(r2) /\ IsErrorStatus(outcome[r2].status))
      => /\ response[r1].status = 500
         /\ response[r1].body =
              IF BodyRead(r1) THEN "Error from DeepSeek LLM. Please try again later."
                              ELSE "Internal server error."
         /\ BodyRead(r1) = BodyRead(r2) => response[r1] = response[r2]

C5_Witness ==
  \E r1, r2 \in Requests :
    /\ Answered(r1) /\ outcome[r1].status = 404 /\ outcome[r1].body.choices = <<"B", "A">>
    /\ Answered(r2) /\ outcome[r2].status = 500 /\ ~outcome[r2].body.wellformed
    /\ response[r1] = response[r2]
    /\ response[r1].body = "Error from DeepSeek LLM. Please try again later."

\* The failure kinds of the completion path, as the claim lists them.  Payload
\* serialization and request construction cannot fail in this handler.
FailureKind2xx(r) ==
  CASE outcome[r].kind \in {"transport", "timeout"} -> "transport"
    [] outcome[r].kind \in {"read", "readtimeout"} -> "read"
    [] outcome[r].kind = "response" /\ ~Is2xx(outcome[r].status) -> "status"
    [] outcome[r].kind = "response" /\ Is2xx(outcome[r].status)
         /\ ~outcome[r].body.wellformed -> "unparsable"
    [] OTHER -> "none"

\* C6: every failure of the completion path (transport, body read, non-2xx
\* status, unparsable 2xx body) ends with HTTP 500 and a text chosen only by
\* the failure kind; HTTP 200 only after a 2xx status and a parsed body.
C6_AsStated ==
  \A r1, r2 \in Requests :
    (Done(r1) /\ Done(r2) /\ NonEmptyQuery(r1) /\ NonEmptyQuery(r2)) =>
      /\ FailureKind2xx(r1) # "none" => response[r1].status = 500
      /\ (FailureKind2xx(r1) # "none" /\ FailureKind2xx(r1) = FailureKind2xx(r2))
           => response[r1].body = response[r2].body
      /\ response[r1].status = 200
           => (outcome[r1].kind = "response" /\ Is2xx(outcome[r1].status)
               /\ outcome[r1].body.wellformed)

\* The single outbound call of the request has failed.
CallFailed(r) ==
  \/ outcome[r].kind \in {"transport", "timeout", "read", "readtimeout"}
  \/ outcome[r].kind = "response" /\ response[r].status = 500

\* C7: a request issues at most one outbound call, and a call is only ever
\* issued by a handler that has issued none yet; in particular none follows a
\* failed call.
C7_NoRetry ==
  [][\A r \in Requests :
       /\ calls'[r] <= 1
       /\ calls'[r] > calls[r] => (pc[r] = "idle" /\ calls[r] = 0)
       /\ (Done(r)' /\ CallFailed(r)') => calls'[r] = 1]_vars

C7_Witness ==
  \E r1, r2 \in Requests :
    /\ Done(r1) /\ outcome[r1].kind = "transport" /\ calls[r1] = 1
    /\ response[r1].status = 500
    /\ Done(r2) /\ outcome[r2].kind = "response" /\ outcome[r2].status = 500
    /\ calls[r2] = 1

UnreachableResponse ==
  [status |-> 500, body |-> "Failed to contact DeepSeek LLM. Please try again later."]

\* No response within the client timeout: the upstream never answers, or
\* answers after the timeout.
HeadersTooLate(r) ==
  /\ pc[r] = "awaiting" /\ upstream[r].connect
  /\ (upstream[r].headersAt = Never \/ upstream[r].headersAt > 60)

\* C8: a request whose upstream never answers, or answers after the client
\* timeout, does not hang: it eventually completes with exactly one response,
\* HTTP 500 with the upstream-unreachable text.
C8_TimeoutEndsRequest ==
  \A r \in Requests :
    HeadersTooLate(r) ~>
      (Done(r) /\ written[r] = 1 /\ response[r] = UnreachableResponse)

C8_Witness ==
  \E r1, r2 \in Requests :
    /\ Done(r1) /\ outcome[r1].kind = "timeout" /\ written[r1] = 1
    /\ response[r1] = UnreachableResponse
    /\ HeadersTooLate(r2) /\ upstream[r2] = Silent

\* An outbound call has been issued for the request.
CallIssued(r) == calls[r] > 0 \/ outbound[r] # NoCall

\* The fixed parts of an outbound call, and its single user message.
FixedCallParts(r) ==
  /\ calls[r] = 1
  /\ query[r].present
  /\ Len(outbound[r].payload.Messages) = 1
  /\ outbound[r].payload.Messages[1].Role = "user"
  /\ outbound[r].payload.Model = "deepseek-ai/DeepSeek-R1"
  /\ outbound[r].payload.Stream = FALSE
  /\ outbound[r].payload.MaxTokens = 1024
  /\ outbound[r].authorization = "Bearer " \o apiKey
  /\ outbound[r].method = "POST"

\* C9 as stated: every outbound call carries exactly one message, of role
\* "user" and with the inbound q unchanged as content, the fixed model,
\* stream=false, max_tokens=1024 and the header "Bearer " + token.
C9_AsStated ==
  \A r \in Requests :
    CallIssued(r) =>
      /\ FixedCallParts(r)
      /\ outbound[r].payload.Messages[1].Content = query[r].value

\* C9 amended: as stated, except that the content is the inbound q with every
\* byte that is not valid UTF-8 replaced by U+FFFD (so q itself whenever q is
\* valid UTF-8); whatever requests came before.
C9_OutboundCall ==
  \A r \in Requests :
    CallIssued(r) =>
      /\ FixedCallParts(r)
      /\ Len(outbound[r].payload.Messages[1].Content) = Len(query[r].value)
      /\ \A i \in 1..Len(query[r].value) :
           outbound[r].payload.Messages[1].Content[i] =
             IF query[r].value[i] = "xFF" THEN "uFFFD" ELSE query[r].value[i]

C9_Witness ==
  \E r1, r2 \in Requests :
    /\ pc[r1] = "awaiting" /\ query[r1].value = <<"H", "i">>
    /\ outbound[r1].payload.Messages[1].Content = <<"H", "i">>
    /\ pc[r2] = "awaiting" /\ query[r2].value = <<"xFF", "i">>
    /\ outbound[r2].payload.Messages[1].Content = <<"uFFFD", "i">>
    /\ outbound[r1].authorization = "Bearer tokA"

\* The per-request state of a request.
Local(r) == <<pc[r], query[r], outbound[r], calls[r], upstream[r], outcome[r],
              response[r], written[r]>>

\* C10: whatever the interleaving, a step of one request leaves every other
\* request untouched, requests with the same q and the same outcome of their
\* own call get the same response, and the token is never written.
C10_RequestsIndependent ==
  [][/\ apiKey' = apiKey
     /\ \A r1, r2 \in Requests :
          (r1 # r2 /\ Local(r1)' # Local(r1)) => Local(r2)' = Local(r2)
     /\ \A r1, r2 \in Requests :
          (Done(r1)' /\ Done(r2)' /\ query'[r1] = query'[r2] /\ outcome'[r1] = outcome'[r2])
            => response'[r1] = response'[r2]]_vars

C10_Witness ==
  \E r1, r2 \in Requests :
    /\ r1 # r2
    /\ Done(r1) /\ response[r1].status = 200 /\ response[r1].body = "B"
    /\ pc[r2] = "awaiting" /\ query[r2] # query[r1]
====
